---- MODULE Spec2Model ----
(***************************************************************************)
(* Model of src/text_atlas.rs: InnerAtlas (one packed surface: texture,    *)
(* texture view, packer, size, glyph cache, usage set) and TextAtlas (the  *)
(* mask and the color surface plus the bind group built from their views). *)
(* Lengths are in pixels.  The rectangle packer (etagere), the GPU device  *)
(* and queue, the rasterizers and the caller that fills the glyph cache    *)
(* are collaborators; they are modelled by their contracts.                *)
(***************************************************************************)
EXTENDS Integers, Sequences, FiniteSets, TLC

VARIABLES
    max_texture_dimension_2d, \* device.limits().max_texture_dimension_2d
    color_mode,               \* TextAtlas.color_mode
    atlas,                    \* kind tag -> InnerAtlas (mask_atlas, color_atlas)
    bind_group,               \* TextAtlas.bind_group: the views it was built from
    regions,                  \* kind tag -> live regions handed out by try_allocate
    nextTexture,              \* device: identity of the next texture created
    allocations,              \* number of rectangles the packer has handed out
    aborted,                  \* the process has panicked
    last                      \* the last operation: its inputs, return and events

vars == <<max_texture_dimension_2d, color_mode, atlas, bind_group, regions,
          nextTexture, allocations, aborted, last>>

----------------------------------------------------------------------------
\* Bounds of the model.

\* The packers hand out at most MaxAllocations rectangles over both surfaces.
MaxAllocations == 2

\* Hardware maxima tried: below, between and above INITIAL_SIZE's multiples.
HwMaxima == {2048, 6000, 8192}
\* Bitmap sizes requested from try_allocate.
Sizes == {3000, 9000}
\* Scale factors passed by the caller.
Scales == {1, 2}

----------------------------------------------------------------------------
\* Program constants.

SHADOW_MARGIN_PX == 2
M == SHADOW_MARGIN_PX
INITIAL_SIZE == 4096
GROWTH_FACTOR == 2

Min(a, b) == IF a <= b THEN a ELSE b

KindTags == {"Mask", "Color"}
ColorModes == {"Accurate", "Web"}

\* enum Kind { Mask, Color { srgb } }
KindMask == [tag |-> "Mask", srgb |-> FALSE]
KindColor(srgb) == [tag |-> "Color", srgb |-> srgb]

num_channels(kind) == IF kind.tag = "Mask" THEN 1 ELSE 4

texture_format(kind) ==
    IF kind.tag = "Mask" THEN "R8Unorm"
    ELSE IF kind.srgb THEN "Rgba8UnormSrgb" ELSE "Rgba8Unorm"

as_content_type(kind) == kind.tag

----------------------------------------------------------------------------
\* Rectangles: min corner (x0, y0) inclusive, max corner (x1, y1) exclusive.

Rect(x0, y0, x1, y1) == [x0 |-> x0, y0 |-> y0, x1 |-> x1, y1 |-> y1]
NoRect == Rect(0, 0, 0, 0)

Overlap(r, s) == r.x0 < s.x1 /\ s.x0 < r.x1 /\ r.y0 < s.y1 /\ s.y0 < r.y1
Inside(r, s) == s.x0 <= r.x0 /\ r.x1 <= s.x1 /\ s.y0 <= r.y0 /\ r.y1 <= s.y1

----------------------------------------------------------------------------
\* The rectangle packer (etagere::BucketedAtlasAllocator), by its contract:
\* allocate returns a rectangle at least as large as requested, inside the
\* bound and disjoint from every live rectangle, or nothing; grow extends the
\* bound and moves nothing; deallocate frees one rectangle.

PackerNew(size) == [size |-> size, live |-> {}]

\* Rectangles are packed tightly: a new rectangle's min corner lies at the
\* origin or on the far edges of live rectangles.
OffsetsX(p) == {0} \cup {l.x1 : l \in p.live}
OffsetsY(p) == {0} \cup {l.y1 : l \in p.live}

\* Shelves are aligned: a rectangle's height is rounded up to the alignment.
ShelfAlignment == 64
ShelfHeight(h) == ((h + ShelfAlignment - 1) \div ShelfAlignment) * ShelfAlignment

PackerCandidates(p, w, h) ==
    {r \in {Rect(x, y, x + w, y + ShelfHeight(h)) :
              x \in OffsetsX(p), y \in OffsetsY(p)} :
        /\ r.x1 <= p.size /\ r.y1 <= p.size
        /\ \A l \in p.live : ~Overlap(r, l)}

\* The set of outcomes of allocate: <<packer, found, rectangle>>.  It fails
\* when the request is empty or no candidate is free, and may fail on a
\* canvas that already holds rectangles (bucketed, non-compacting).
PackerAllocate(p, w, h) ==
    LET cands == IF w <= 0 \/ h <= 0 THEN {} ELSE PackerCandidates(p, w, h)
        some  == {[packer |-> [p EXCEPT !.live = @ \cup {r}],
                   found |-> TRUE, rectangle |-> r] : r \in cands}
        none  == {[packer |-> p, found |-> FALSE, rectangle |-> NoRect]}
    IN  IF cands = {} \/ p.live # {} THEN some \cup none ELSE some

PackerGrow(p, new_size) == [p EXCEPT !.size = new_size]

PackerDeallocate(p, r) == [p EXCEPT !.live = @ \ {r}]

----------------------------------------------------------------------------
\* Glyph identities (GlyphonCacheKey): Text(cache_key) or Custom(cache_key).
\* A Custom key carries glyph_id, width, height, x_bin, y_bin; a Text key's
\* bitmap size is the placement of the image the rasterizer yields for it.

Key(tag, id, w, h) ==
    [tag |-> tag, glyph_id |-> id, width |-> w, height |-> h, x_bin |-> 0, y_bin |-> 0]

TextKeys == {Key("Text", 1, 0, 0), Key("Text", 2, 0, 0)}
CustomKeys == {Key("Custom", 3, 3000, 1000)}
Keys == TextKeys \cup CustomKeys
NoKey == Key("None", 0, 0, 0)

\* The content type of a glyph's bitmap decides the surface it is cached in:
\* glyphs 1 and 2 are coverage masks, glyph 3 is colored.
ContentTypeOf(key) == IF key.glyph_id \in {1, 2} THEN "Mask" ELSE "Color"

\* SwashCache::get_image_uncached: the image of a Text key (placement and
\* data), a function of the key alone.  Glyph 2 is visually empty.
SwashImage(key) ==
    IF key.glyph_id = 1
    THEN [width |-> 1000, height |-> 1000, data |-> [key |-> key, scale |-> 0]]
    ELSE [width |-> 0, height |-> 0, data |-> [key |-> key, scale |-> 0]]

\* RasterizeCustomGlyphRequest
Request(id, w, h, xb, yb, scale) ==
    [id |-> id, width |-> w, height |-> h, x_bin |-> xb, y_bin |-> yb, scale |-> scale]
NoRequest == Request(0, 0, 0, 0, 0, 0)

\* The bitmap a deterministic custom rasterizer yields for a request.
CustomData(key, input) == [key |-> key, scale |-> input.scale]

\* What the rasterizers answer during one call of grow: data for every key
\* ("some"), or for one key nothing ("none") or, from the custom rasterizer,
\* a bitmap that fails validation ("invalid").
NoFault == [key |-> NoKey, answer |-> "some"]
Faults ==
    {NoFault} \cup {[key |-> k, answer |-> "none"] : k \in Keys}
              \cup {[key |-> k, answer |-> "invalid"] : k \in CustomKeys}

\* SwashCache::get_image_uncached(font_system, cache_key) is Some or None.
SwashAnswer(fault, key) == IF fault.key = key THEN fault.answer ELSE "some"
\* rasterize_custom_glyph(input) is Some (valid or not) or None.
RasterizerAnswer(fault, key) == IF fault.key = key THEN fault.answer ELSE "some"

----------------------------------------------------------------------------
\* GPU resources.  A texture is its identity, its extent, its format and the
\* writes it holds; a view names the texture it was created from.

CreateTexture(id, size, format) ==
    [id |-> id, width |-> size, height |-> size, format |-> format, data |-> {}]

CreateView(texture) == [texture |-> texture.id]

\* queue.write_texture: texels of the written extent replace what was there.
WriteTexture(texture, x, y, w, h, data) ==
    LET r == Rect(x, y, x + w, y + h)
        kept == {d \in texture.data :
                    ~Overlap(Rect(d.x, d.y, d.x + d.w, d.y + d.h), r)}
    IN  [texture EXCEPT !.data =
            kept \cup {[x |-> x, y |-> y, w |-> w, h |-> h, data |-> data]}]

\* One step of an operation, as the collaborators see it.
Event(ev, tex, key, x, y, input) ==
    [ev |-> ev, texture |-> tex, key |-> key, x |-> x, y |-> y, input |-> input]

----------------------------------------------------------------------------
\* GpuCacheStatus and the glyph cache.  The cache is an LruCache: a sequence
\* of entries, most recently used first, with one entry per key.

InAtlas(x, y) == [tag |-> "InAtlas", x |-> x, y |-> y]
SkipRasterization == [tag |-> "SkipRasterization", x |-> 0, y |-> 0]

CacheKeys(cache) == {cache[i].key : i \in 1..Len(cache)}

----------------------------------------------------------------------------
\* InnerAtlas

InnerAtlasNew(kind, max_dim, texture_id) ==
    LET size == Min(INITIAL_SIZE, max_dim)
        texture == CreateTexture(texture_id, size, texture_format(kind))
    IN  [kind |-> kind,
         texture |-> texture,
         texture_view |-> CreateView(texture),
         packer |-> PackerNew(size),
         size |-> size,
         glyph_cache |-> << >>,
         glyphs_in_use |-> {},
         max_texture_dimension_2d |-> max_dim]

\* A padded request that reserves the margin on one side only.
PaddedOneSide(w, h) == [width |-> w + M, height |-> h + M]

\* A shift of the min corner by the whole padding instead of one margin.
ShiftMinTwice(r) == [r EXCEPT !.x0 = @ + 2 * M, !.y0 = @ + 2 * M]

\* A request handed to the packer without any padding.
PaddedNot(w, h) == [width |-> w, height |-> h]

\* try_allocate: the padded request and the shift of the min corner.
Padded(w, h) == [width |-> w + 2 * M, height |-> h + 2 * M]

ShiftMin(r) == [r EXCEPT !.x0 = @ + M, !.y0 = @ + M]

NoAllocation == [id |-> NoRect, rectangle |-> NoRect]

\* A try_allocate that, when the packer has no room, doubles the packer's
\* bound for the next call.
try_allocate_extending(a, width, height) ==
    LET padded == Padded(width, height)
    IN  {[atlas |-> IF o.found THEN [a EXCEPT !.packer = o.packer]
                    ELSE [a EXCEPT !.packer = PackerGrow(@, 2 * a.packer.size)],
          ret |-> IF o.found THEN "some" ELSE "none",
          allocation |-> IF o.found
                         THEN [id |-> o.rectangle, rectangle |-> ShiftMin(o.rectangle)]
                         ELSE NoAllocation] :
            o \in PackerAllocate(a.packer, padded.width, padded.height)}

\* The outcomes of try_allocate(width, height): the surface afterwards, and
\* the Allocation returned (its id is the packer's rectangle) or nothing.
try_allocate(a, width, height) ==
    LET padded == Padded(width, height)
    IN  {[atlas |-> [a EXCEPT !.packer = o.packer],
          ret |-> IF o.found THEN "some" ELSE "none",
          allocation |-> IF o.found
                         THEN [id |-> o.rectangle, rectangle |-> ShiftMin(o.rectangle)]
                         ELSE NoAllocation] :
            o \in PackerAllocate(a.packer, padded.width, padded.height)}

\* A guard that lets a surface at the maximum grow once more.
AtMaximumStrict(a) == a.size > a.max_texture_dimension_2d

\* grow, line 98: the surface is already at the hardware maximum.
AtMaximum(a) == a.size >= a.max_texture_dimension_2d

\* A new size that is the old one: a grow that never enlarges the surface.
NewSizeStuck(a) == Min(a.size, a.max_texture_dimension_2d)

\* A doubled size that ignores the hardware maximum.
NewSizeUncapped(a) == a.size * GROWTH_FACTOR

\* grow, line 105.
NewSize(a) == Min(a.size * GROWTH_FACTOR, a.max_texture_dimension_2d)

\* A packer rebuilt at the new size, forgetting what it had handed out.
GrowPackerFresh(a, new_size) == [a EXCEPT !.packer = PackerNew(new_size)]

\* grow, line 107: the packer's bound is extended in place.
GrowPacker(a, new_size) == [a EXCEPT !.packer = PackerGrow(@, new_size)]

\* A new texture created with the extent of the old one.
ReplaceTextureOldSize(a, texture_id, new_size) ==
    [a EXCEPT !.texture = CreateTexture(texture_id, a.size, texture_format(a.kind))]

\* grow, lines 110-123: self.texture is replaced by a new, empty texture.
ReplaceTexture(a, texture_id, new_size) ==
    [a EXCEPT !.texture = CreateTexture(texture_id, new_size, texture_format(a.kind))]

\* grow, lines 141-148: the request built for a Custom key.
CustomRequest(key, scale_factor) ==
    Request(key.glyph_id, key.width, key.height, key.x_bin, key.y_bin, scale_factor)

\* A grow that gives up and reports failure when a rasterizer yields nothing.
RasterizeFailureReturnsFalse == "false"

\* A grow that carries on, without the glyph, when a rasterizer yields nothing.
RasterizeFailureIgnored == ""

\* How grow ends when a rasterizer yields nothing: unwrap at line 134, panic!
\* at line 151.
RasterizeFailure == "panic"

\* An upload that ignores the glyph's placement.
UploadGlyphAtOrigin(acc, key, x, y, w, h, data) ==
    [acc EXCEPT
        !.texture = WriteTexture(@, 0, 0, w, h, data),
        !.events = Append(@, Event("write_texture", acc.texture.id, key, 0, 0, NoRequest))]

\* grow, lines 165-187: the upload of one glyph into self.texture at (x, y).
UploadGlyph(acc, key, x, y, w, h, data) ==
    [acc EXCEPT
        !.texture = WriteTexture(@, x, y, w, h, data),
        !.events = Append(@, Event("write_texture", acc.texture.id, key, x, y, NoRequest))]

\* grow, lines 126-188, one iteration of the re-upload loop.
\* acc = [texture, events, stop]: self.texture, the steps so far, and how the
\* loop ended early ("" while it runs).
ReUploadEntry(acc, glyph, scale_factor, fault) ==
    LET key == glyph.key
        x == glyph.gpu_cache.x
        y == glyph.gpu_cache.y
    IN  IF glyph.gpu_cache.tag = "SkipRasterization" THEN acc
        ELSE IF key.tag = "Text" THEN
            LET asked == [acc EXCEPT !.events =
                            Append(@, Event("get_image_uncached", 0, key, x, y, NoRequest))]
                image == SwashImage(key)
            IN  IF SwashAnswer(fault, key) = "none"
                THEN [asked EXCEPT !.stop = RasterizeFailure]
                ELSE UploadGlyph(asked, key, x, y, image.width, image.height, image.data)
        ELSE
            LET input == CustomRequest(key, scale_factor)
                asked == [acc EXCEPT !.events =
                            Append(@, Event("rasterize_custom_glyph", 0, key, x, y, input))]
                checked == [asked EXCEPT !.events =
                              Append(@, Event("validate", 0, key, x, y, input))]
            IN  IF RasterizerAnswer(fault, key) = "none"
                THEN [asked EXCEPT !.stop = RasterizeFailure]
                ELSE IF RasterizerAnswer(fault, key) = "invalid"
                THEN [checked EXCEPT !.stop = "panic"]
                ELSE UploadGlyph(checked, key, x, y, key.width, key.height,
                                 CustomData(key, input))

\* The loop over &self.glyph_cache, most recently used entry first.
RECURSIVE ReUpload(_, _, _, _, _)
ReUpload(acc, cache, i, scale_factor, fault) ==
    IF i > Len(cache) \/ acc.stop # "" THEN acc
    ELSE ReUpload(ReUploadEntry(acc, cache[i], scale_factor, fault),
                  cache, i + 1, scale_factor, fault)

\* A grow whose loop has promoted every entry it visited: the recency order
\* of the glyph cache ends reversed.
FinishGrowPromoting(a, new_size) ==
    [a EXCEPT !.texture_view = CreateView(a.texture), !.size = new_size,
              !.glyph_cache = [i \in 1..Len(@) |-> @[Len(@) + 1 - i]]]

\* A grow that replaces the view and forgets to store the new size.
FinishGrowKeepsSize(a, new_size) == [a EXCEPT !.texture_view = CreateView(a.texture)]

\* grow, lines 190-191.
FinishGrow(a, new_size) ==
    [a EXCEPT !.texture_view = CreateView(a.texture), !.size = new_size]

\* A grow that re-uploads into the texture it has, and only then creates the
\* new one.
grow_uploads_first(a, texture_id, scale_factor, fault) ==
    IF AtMaximum(a) THEN [atlas |-> a, ret |-> "false", events |-> << >>]
    ELSE
        LET new_size == NewSize(a)
            a1 == GrowPacker(a, new_size)
            start == [texture |-> a1.texture,
                      events |-> <<Event("packer_grow", 0, NoKey, new_size, new_size, NoRequest)>>,
                      stop |-> ""]
            done == ReUpload(start, a1.glyph_cache, 1, scale_factor, fault)
            a2 == ReplaceTexture(a1, texture_id, new_size)
        IN  IF done.stop # ""
            THEN [atlas |-> [a1 EXCEPT !.texture = done.texture], ret |-> done.stop,
                  events |-> done.events]
            ELSE [atlas |-> FinishGrow(a2, new_size), ret |-> "true",
                  events |-> done.events \o
                                <<Event("create_texture", texture_id, NoKey,
                                        new_size, new_size, NoRequest),
                                  Event("create_view", a2.texture.id, NoKey,
                                        new_size, new_size, NoRequest),
                                  Event("store_size", 0, NoKey,
                                        new_size, new_size, NoRequest)>>]

\* InnerAtlas::grow: the surface afterwards, the return ("true", "false", or
\* "panic" when the call does not return) and the steps taken.
grow(a, texture_id, scale_factor, fault) ==
    IF AtMaximum(a) THEN [atlas |-> a, ret |-> "false", events |-> << >>]
    ELSE
        LET new_size == NewSize(a)
            a1 == GrowPacker(a, new_size)
            a2 == ReplaceTexture(a1, texture_id, new_size)
            start == [texture |-> a2.texture,
                      events |-> <<Event("packer_grow", 0, NoKey, new_size, new_size, NoRequest),
                                   Event("create_texture", texture_id, NoKey,
                                         new_size, new_size, NoRequest)>>,
                      stop |-> ""]
            done == ReUpload(start, a2.glyph_cache, 1, scale_factor, fault)
            a3 == [a2 EXCEPT !.texture = done.texture]
        IN  IF done.stop # ""
            THEN [atlas |-> a3, ret |-> done.stop, events |-> done.events]
            ELSE [atlas |-> FinishGrow(a3, new_size), ret |-> "true",
                  events |-> done.events \o
                                <<Event("create_view", a3.texture.id, NoKey,
                                        new_size, new_size, NoRequest),
                                  Event("store_size", 0, NoKey,
                                        new_size, new_size, NoRequest)>>]

\* The answers that differ for this surface: a fault on a key that grow
\* does not ask for is no fault.
FaultsFor(a) ==
    {f \in Faults : f = NoFault \/ \E i \in 1..Len(a.glyph_cache) :
        a.glyph_cache[i].key = f.key /\ a.glyph_cache[i].gpu_cache.tag = "InAtlas"}

\* InnerAtlas::trim
trim(a) == [a EXCEPT !.glyphs_in_use = {}]

----------------------------------------------------------------------------
\* TextAtlas

\* A color surface that is linear whatever the color mode.
ColorKindLinear(mode) == KindColor(FALSE)

\* with_color_mode, lines 283-293: the two surfaces and their kinds.
ColorKind(mode) == KindColor(mode = "Accurate")

\* cache.create_atlas_bind_group(device, &color.texture_view, &mask.texture_view)
create_atlas_bind_group(color_view, mask_view) == [color |-> color_view, mask |-> mask_view]

\* rebind
rebind(at) == create_atlas_bind_group(at["Color"].texture_view, at["Mask"].texture_view)

\* A trim that forgets the color surface.
TextAtlasTrimMaskOnly(at) == [at EXCEPT !["Mask"] = trim(@)]

\* TextAtlas::trim: the surfaces afterwards.
TextAtlasTrim(at) == [k \in KindTags |-> trim(at[k])]

\* A grow that never rebuilds the bind group.
GrowBindGroupStale(at, bg, did_grow) == bg

\* TextAtlas::grow, lines 345-347: the bind group after the surface's grow.
GrowBindGroup(at, bg, did_grow) == IF did_grow THEN rebind(at) ELSE bg

\* A dispatch that grows the surface of the other content type.
GrowTargetSwapped(content_type) == IF content_type = "Mask" THEN "Color" ELSE "Mask"

\* TextAtlas::grow, lines 326-343: the surface grown for a content type
\* (mask_atlas for ContentType::Mask, color_atlas for ContentType::Color).
GrowTarget(content_type) == IF content_type = "Mask" THEN "Mask" ELSE "Color"

\* inner_for_content_mut
inner_for_content_mut(at, content_type) == at[content_type]

----------------------------------------------------------------------------
\* The state machine.

\* The record of an operation: its name, for grow the surface it was called
\* on, its return, and the steps it took.
Op(op, kind, ret, events) == [op |-> op, kind |-> kind, ret |-> ret, events |-> events]

\* A live region: the Allocation try_allocate returned for (width, height).
Region(allocation, w, h) ==
    [id |-> allocation.id, rectangle |-> allocation.rectangle, width |-> w, height |-> h]

\* TextAtlas::with_color_mode on a device with the given limit.
Init ==
    /\ max_texture_dimension_2d \in HwMaxima
    /\ color_mode \in ColorModes
    /\ atlas = [k \in KindTags |->
                  IF k = "Color"
                  THEN InnerAtlasNew(ColorKind(color_mode), max_texture_dimension_2d, 1)
                  ELSE InnerAtlasNew(KindMask, max_texture_dimension_2d, 2)]
    /\ bind_group = create_atlas_bind_group(atlas["Color"].texture_view,
                                            atlas["Mask"].texture_view)
    /\ regions = [k \in KindTags |-> {}]
    /\ nextTexture = 3
    /\ allocations = 0
    /\ aborted = FALSE
    /\ last = Op("new", "", "unit", << >>)

\* atlas.inner_for_content_mut(kind).try_allocate(width, height)
TryAllocate(k, w, h) ==
    /\ ~aborted
    /\ \E o \in try_allocate(inner_for_content_mut(atlas, k), w, h) :
        /\ o.ret = "some" => allocations < MaxAllocations
        /\ atlas' = [atlas EXCEPT ![k] = o.atlas]
        /\ regions' = IF o.ret = "some"
                      THEN [regions EXCEPT ![k] = @ \cup {Region(o.allocation, w, h)}]
                      ELSE regions
        /\ last' = Op("try_allocate", "", o.ret, << >>)
        /\ allocations' = IF o.ret = "some" THEN allocations + 1 ELSE allocations
    /\ UNCHANGED <<max_texture_dimension_2d, color_mode, bind_group, nextTexture,
                   aborted>>

\* TextAtlas::grow(content_type, scale_factor, rasterize_custom_glyph)
Grow(k, scale_factor, fault) ==
    /\ ~aborted
    /\ \E t \in {GrowTarget(k)} :
       \E r \in {grow(atlas[t], nextTexture, scale_factor, fault)} :
       LET at == [atlas EXCEPT ![t] = r.atlas]
           did_grow == r.ret = "true"
       IN  /\ atlas' = at
           /\ bind_group' = GrowBindGroup(at, bind_group, did_grow)
           /\ nextTexture' = IF r.ret = "false" THEN nextTexture ELSE nextTexture + 1
           /\ aborted' = (r.ret = "panic")
           /\ last' = Op("grow", k, r.ret,
                         IF did_grow
                         THEN Append(r.events, Event("rebind", 0, NoKey, 0, 0, NoRequest))
                         ELSE r.events)
    /\ UNCHANGED <<max_texture_dimension_2d, color_mode, regions, allocations>>

\* TextAtlas::trim
Trim ==
    /\ ~aborted
    /\ atlas' = TextAtlasTrim(atlas)
    /\ last' = Op("trim", "", "unit", << >>)
    /\ UNCHANGED <<max_texture_dimension_2d, color_mode, bind_group, regions,
                   nextTexture, allocations, aborted>>

\* The caller resolves one glyph for drawing: a cached key is promoted and
\* marked in use; an empty glyph is cached as SkipRasterization; any other is
\* allocated, uploaded at the allocation's min corner and cached InAtlas.
\* An entry keeps its key, its placement, the packer's rectangle and, for
\* the record, the request its bitmap was rasterized from.
PrepareCached(k, key) ==
    LET a == atlas[k]
        i == CHOOSE j \in 1..Len(a.glyph_cache) : a.glyph_cache[j].key = key
        rest == SelectSeq(a.glyph_cache, LAMBDA e : e.key # key)
    IN  /\ atlas' = [atlas EXCEPT ![k].glyph_cache = <<a.glyph_cache[i]>> \o rest,
                                  ![k].glyphs_in_use = @ \cup {key}]
        /\ regions' = regions
        /\ allocations' = allocations
        /\ last' = Op("prepare", "", "unit", << >>)

\* The request that produced a Custom key's bitmap (none for a Text key).
OriginalRequest(key, scale_factor) ==
    IF key.tag = "Custom"
    THEN Request(key.glyph_id, key.width, key.height, key.x_bin, key.y_bin, scale_factor)
    ELSE NoRequest

PrepareEmpty(k, key) ==
    /\ atlas' = [atlas EXCEPT
                    ![k].glyph_cache =
                        <<[key |-> key, gpu_cache |-> SkipRasterization, atlas_id |-> NoRect,
                           request |-> NoRequest]>> \o @,
                    ![k].glyphs_in_use = @ \cup {key}]
    /\ regions' = regions
    /\ allocations' = allocations
    /\ last' = Op("prepare", "", "unit", << >>)

PrepareNew(k, key, w, h, data, scale_factor) ==
    \E o \in try_allocate(inner_for_content_mut(atlas, k), w, h) :
        /\ o.ret = "some" => allocations < MaxAllocations
        /\ IF o.ret = "none"
           THEN /\ atlas' = [atlas EXCEPT ![k] = o.atlas]
                /\ regions' = regions
           ELSE LET x == o.allocation.rectangle.x0
                    y == o.allocation.rectangle.y0
                IN  /\ atlas' = [atlas EXCEPT ![k] =
                            [o.atlas EXCEPT
                                !.texture = WriteTexture(@, x, y, w, h, data),
                                !.glyph_cache =
                                    <<[key |-> key, gpu_cache |-> InAtlas(x, y),
                                       atlas_id |-> o.allocation.id,
                                       request |-> OriginalRequest(key, scale_factor)]>> \o @,
                                !.glyphs_in_use = @ \cup {key}]]
                    /\ regions' = [regions EXCEPT ![k] = @ \cup {Region(o.allocation, w, h)}]
        /\ last' = Op("prepare", "", "unit", << >>)
        /\ allocations' = IF o.ret = "some" THEN allocations + 1 ELSE allocations

Prepare(k, key, scale_factor) ==
    /\ ~aborted
    /\ k = ContentTypeOf(key)
    /\ IF key \in CacheKeys(atlas[k].glyph_cache) THEN PrepareCached(k, key)
       ELSE IF key.tag = "Text"
       THEN LET image == SwashImage(key)
            IN  IF image.width = 0 \/ image.height = 0
                THEN PrepareEmpty(k, key)
                ELSE PrepareNew(k, key, image.width, image.height, image.data, 0)
       ELSE PrepareNew(k, key, key.width, key.height,
                       CustomData(key, OriginalRequest(key, scale_factor)), scale_factor)
    /\ UNCHANGED <<max_texture_dimension_2d, color_mode, bind_group, nextTexture,
                   aborted>>

\* The caller evicts the least recently used entry when it is not in use,
\* and gives its rectangle back to the packer.
Evict(k) ==
    /\ ~aborted
    /\ Len(atlas[k].glyph_cache) > 0
    /\ LET a == atlas[k]
           n == Len(a.glyph_cache)
           lru == a.glyph_cache[n]
       IN  /\ lru.key \notin a.glyphs_in_use
           /\ atlas' = [atlas EXCEPT
                          ![k].glyph_cache = SubSeq(a.glyph_cache, 1, n - 1),
                          ![k].packer = IF lru.atlas_id = NoRect THEN @
                                        ELSE PackerDeallocate(@, lru.atlas_id)]
           /\ regions' = [regions EXCEPT ![k] = {r \in @ : r.id # lru.atlas_id}]
           /\ last' = Op("evict", "", "unit", << >>)
    /\ UNCHANGED <<max_texture_dimension_2d, color_mode, bind_group, nextTexture,
                   allocations, aborted>>

Next ==
    \/ \E k \in KindTags, w \in Sizes, h \in Sizes : TryAllocate(k, w, h)
    \/ \E k \in KindTags, s \in Scales :
          \E fault \in FaultsFor(atlas[k]) : Grow(k, s, fault)
    \/ Trim
    \/ \E k \in KindTags, key \in Keys, s \in Scales : Prepare(k, key, s)
    \/ \E k \in KindTags : Evict(k)

Spec == Init /\ [][Next]_vars

----------------------------------------------------------------------------
\* Properties.

SurfaceCanvas(k) == Rect(0, 0, atlas[k].size, atlas[k].size)

\* The (width, height) pixels at the min corner of a region's returned
\* rectangle, and the same pixels with M more on every side.
InnerPixels(r) ==
    Rect(r.rectangle.x0, r.rectangle.y0,
         r.rectangle.x0 + r.width, r.rectangle.y0 + r.height)
WithMargin(q) == Rect(q.x0 - M, q.y0 - M, q.x1 + M, q.y1 + M)

\* Requests that fit an empty canvas of surface k, padding included.
FitsEmpty(k, w, h) ==
    w + 2 * M <= atlas[k].size /\ ShelfHeight(h + 2 * M) <= atlas[k].size

\* C1 as stated: the rectangle try_allocate returns for (w, h) is exactly
\* (w, h) pixels, with M free pixels on every side.
C1_ReturnedRectangleIsExact ==
    \A k \in KindTags : \A r \in regions[k] :
        /\ r.rectangle.x1 - r.rectangle.x0 = r.width
        /\ r.rectangle.y1 - r.rectangle.y0 = r.height
        /\ Inside(WithMargin(r.rectangle), r.id)

\* C1 (amended): on an empty canvas every request that fits is granted; the
\* rectangle returned has its min corner M pixels inside the packer's
\* rectangle and keeps the packer's max corner, so it is at least
\* (w + M, h + M) pixels; the (w, h) pixels at its min corner have M pixels
\* on every side inside the packer's rectangle, which lies on the canvas and
\* which no other live rectangle meets.
C1_InnerPixelsHaveMargin ==
    /\ \A k \in KindTags : \A r \in regions[k] :
        /\ r.rectangle.x0 = r.id.x0 + M /\ r.rectangle.y0 = r.id.y0 + M
        /\ r.rectangle.x1 = r.id.x1 /\ r.rectangle.y1 = r.id.y1
        /\ r.rectangle.x1 - r.rectangle.x0 >= r.width + M
        /\ r.rectangle.y1 - r.rectangle.y0 >= r.height + M
        /\ Inside(WithMargin(InnerPixels(r)), r.id)
        /\ Inside(r.id, SurfaceCanvas(k))
        /\ r.id \in atlas[k].packer.live
        /\ \A l \in atlas[k].packer.live \ {r.id} : ~Overlap(WithMargin(InnerPixels(r)), l)
    /\ \A k \in KindTags : \A w \in Sizes \cup {1000}, h \in Sizes \cup {1000} :
        (atlas[k].packer.live = {} /\ FitsEmpty(k, w, h))
            => \A o \in try_allocate(atlas[k], w, h) : o.ret = "some"

\* A call of try_allocate on an empty canvas has just returned a region.
C1_Witness ==
    /\ last.op = "try_allocate" /\ last.ret = "some"
    /\ \E k \in KindTags :
        /\ Cardinality(regions[k]) = 1
        /\ Cardinality(atlas[k].packer.live) = 1
        /\ \E r \in regions[k] : r.width = 3000 /\ r.height = 3000

\* C2: no two live regions of a surface overlap, each taken with M pixels
\* of padding on every side.
C2_NoOverlap ==
    \A k \in KindTags : \A r1 \in regions[k], r2 \in regions[k] :
        r1 # r2 => ~Overlap(WithMargin(InnerPixels(r1)), WithMargin(InnerPixels(r2)))

\* Two regions are live on one surface, side by side, after a grow and an
\* eviction.
C2_Witness ==
    \E k \in KindTags :
        /\ Cardinality(regions[k]) = 2
        /\ \E r1 \in regions[k], r2 \in regions[k] : r1.id.x1 = r2.id.x0
        /\ atlas[k].size > INITIAL_SIZE

\* The placements recorded in a glyph cache, entry by entry.
Placements(cache) == [i \in 1..Len(cache) |-> <<cache[i].key, cache[i].gpu_cache>>]

\* This step is a call of grow on surface k.
GrowStep(k) == last'.op = "grow" /\ last'.kind = k

\* C3: a successful grow leaves every region handed out before it, and the
\* (x, y) of every glyph cache entry, at the coordinates it had.
C3_GrowKeepsCoordinates ==
    [][\A k \in KindTags : (GrowStep(k) /\ last'.ret = "true") =>
          /\ atlas'[k].packer.live = atlas[k].packer.live
          /\ \A r \in regions[k] : r \in regions'[k] /\ r.id \in atlas'[k].packer.live
          /\ Placements(atlas'[k].glyph_cache) = Placements(atlas[k].glyph_cache)]_vars

\* A grow has succeeded on a surface that holds a live region and a placed
\* glyph.
C3_Witness ==
    /\ last.op = "grow" /\ last.ret = "true"
    /\ regions[last.kind] # {}
    /\ \E i \in 1..Len(atlas[last.kind].glyph_cache) :
          atlas[last.kind].glyph_cache[i].gpu_cache.tag = "InAtlas"

\* The steps of the last operation that upload, and that rasterize, a key.
UploadsOf(key) ==
    {i \in 1..Len(last.events) :
        last.events[i].ev = "write_texture" /\ last.events[i].key = key}
RasterizationsOf(key) ==
    {i \in 1..Len(last.events) :
        /\ last.events[i].ev \in {"get_image_uncached", "rasterize_custom_glyph"}
        /\ last.events[i].key = key}

\* The write a placed glyph is expected to leave in the texture: the bitmap
\* its key rasterizes to (for a Custom key, in answer to request input).
ExpectedWrite(glyph, input) ==
    IF glyph.key.tag = "Text"
    THEN [x |-> glyph.gpu_cache.x, y |-> glyph.gpu_cache.y,
          w |-> SwashImage(glyph.key).width, h |-> SwashImage(glyph.key).height,
          data |-> SwashImage(glyph.key).data]
    ELSE [x |-> glyph.gpu_cache.x, y |-> glyph.gpu_cache.y,
          w |-> glyph.key.width, h |-> glyph.key.height,
          data |-> [key |-> glyph.key, scale |-> input.scale]]

C5_GrowAtMaximumIsNoOp ==
    [][\A k \in KindTags :
          (GrowStep(k) /\ atlas[k].size = max_texture_dimension_2d) =>
              /\ last'.ret = "false"
              /\ last'.events = << >>
              /\ atlas' = atlas
              /\ bind_group' = bind_group
              /\ nextTexture' = nextTexture
              /\ regions' = regions
              /\ aborted' = aborted]_vars

\* grow has returned false on a surface that holds a placed glyph in use.
C5_Witness ==
    /\ last.op = "grow" /\ last.ret = "false"
    /\ atlas[last.kind].size = max_texture_dimension_2d
    /\ atlas[last.kind].glyphs_in_use # {}
    /\ \E i \in 1..Len(atlas[last.kind].glyph_cache) :
          atlas[last.kind].glyph_cache[i].gpu_cache.tag = "InAtlas"

\* C6: grow returns false only at the hardware maximum: called on a surface
\* below the maximum it returns true or the process aborts.
C6_FalseOnlyAtMaximum ==
    [][\A k \in KindTags :
          /\ (GrowStep(k) /\ atlas[k].size < max_texture_dimension_2d) =>
                \/ last'.ret = "true" /\ ~aborted'
                \/ last'.ret = "panic" /\ aborted'
          /\ (GrowStep(k) /\ last'.ret = "false") =>
                atlas[k].size >= max_texture_dimension_2d]_vars

\* A grow below the maximum has failed in the middle: the process aborted.
C6_Witness ==
    /\ last.op = "grow" /\ last.ret = "panic" /\ aborted
    /\ atlas[last.kind].size < max_texture_dimension_2d

\* C7: a successful grow sets the size to min(2 * old size, hardware maximum);
\* with initial size 4096 and hardware maximum 8192 the first grow that
\* returns yields 8192 and true, and a grow at 8192 returns false.
C7_GrowDoublesCapped ==
    [][\A k \in KindTags : GrowStep(k) =>
          /\ last'.ret = "true" =>
                atlas'[k].size = Min(2 * atlas[k].size, max_texture_dimension_2d)
          /\ (max_texture_dimension_2d = 8192 /\ atlas[k].size = 4096 /\ ~aborted') =>
                (last'.ret = "true" /\ atlas'[k].size = 8192)
          /\ (max_texture_dimension_2d = 8192 /\ atlas[k].size = 8192) =>
                (last'.ret = "false" /\ atlas'[k].size = 8192)]_vars

\* With hardware maximum 8192, a surface has grown to 8192 and a further
\* grow on it has returned false.
C7_Witness ==
    /\ max_texture_dimension_2d = 8192
    /\ last.op = "grow" /\ last.ret = "false"
    /\ atlas[last.kind].size = 8192
    /\ atlas[last.kind].texture.id > 2

\* C8: trim empties the usage sets of both surfaces and leaves every cache
\* entry, placement, packed region, size, texture and view as it was.
C8_TrimClearsUsageOnly ==
    [][last'.op = "trim" =>
          /\ \A k \in KindTags :
                /\ atlas'[k].glyphs_in_use = {}
                /\ atlas'[k] = [atlas[k] EXCEPT !.glyphs_in_use = {}]
          /\ regions' = regions
          /\ bind_group' = bind_group]_vars

\* trim has run with glyphs cached on both surfaces.
C8_Witness ==
    /\ last.op = "trim"
    /\ \A k \in KindTags : atlas[k].glyph_cache # << >> /\ atlas[k].glyphs_in_use = {}
    /\ \E k \in KindTags : regions[k] # {}

\* C9: while the process runs, the bind group is the one built from the
\* current texture views of the color and the mask surface, and each view
\* is a view of its surface's current texture.
C9_BindGroupIsCurrent ==
    ~aborted =>
        /\ bind_group = create_atlas_bind_group(atlas["Color"].texture_view,
                                                atlas["Mask"].texture_view)
        /\ \A k \in KindTags : atlas[k].texture_view = CreateView(atlas[k].texture)

\* Both surfaces have grown, and the process runs.
C9_Witness ==
    /\ ~aborted
    /\ last.op = "grow" /\ last.ret = "true"
    /\ \A k \in KindTags : atlas[k].texture.id > 2

\* C10: a surface's size starts at min(4096, hardware maximum), never
\* decreases, strictly increases with every successful grow, and never
\* exceeds the hardware maximum.
C10_SizeMonotone ==
    /\ \A k \in KindTags : atlas[k].size = Min(4096, max_texture_dimension_2d)
    /\ [](\A k \in KindTags : atlas[k].size <= max_texture_dimension_2d)
    /\ [][\A k \in KindTags :
            /\ atlas'[k].size >= atlas[k].size
            /\ (GrowStep(k) /\ last'.ret = "true") => atlas'[k].size > atlas[k].size]_vars

\* A surface has grown to a hardware maximum that is not a multiple of the
\* initial size.
C10_Witness ==
    /\ last.op = "grow" /\ last.ret = "true"
    /\ atlas[last.kind].size = 6000
    /\ atlas[last.kind].size = max_texture_dimension_2d

\* Bitmap extents at the edge of surface k's bound: the largest that fits
\* with its padding, the smallest that does not, and larger ones.
EdgeSizes(k) ==
    {atlas[k].packer.size - 2 * M, atlas[k].packer.size - 2 * M + 1,
     atlas[k].packer.size} \cup Sizes

\* C11: try_allocate(width, height) returns nothing, whatever the canvas
\* holds and also when it holds nothing, whenever width + 2M or height + 2M
\* exceeds the canvas's current bound.
C11_OversizeIsRefused ==
    \A k \in KindTags : \A w \in EdgeSizes(k) \cup {1000}, h \in EdgeSizes(k) \cup {1000} :
        (w + 2 * M > atlas[k].packer.size \/ h + 2 * M > atlas[k].packer.size)
            => \A o \in try_allocate(atlas[k], w, h) : o.ret = "none"

\* try_allocate has returned nothing on empty canvases that have grown past
\* the initial size: the request exceeded the bound.
C11_Witness ==
    /\ last.op = "try_allocate" /\ last.ret = "none"
    /\ \A k \in KindTags : atlas[k].packer.live = {} /\ atlas[k].size > INITIAL_SIZE

\* The answers in which the custom rasterizer yields no data for a Custom
\* key that surface a holds placed in the atlas.
NoDataFaults(a) ==
    {f \in FaultsFor(a) : f.key \in CustomKeys /\ f.answer = "none"}

\* C12: when, in a grow on a surface below the hardware maximum, the custom
\* rasterizer yields no data for a Custom key marked InAtlas, grow returns
\* neither true nor false: the process aborts, the bind group is not rebuilt,
\* and no operation is ever taken from the aborted state.
C12_NoDataAborts ==
    /\ [](\A k \in KindTags, s \in Scales : \A f \in NoDataFaults(atlas[k]) :
            ~AtMaximum(atlas[k]) => grow(atlas[k], nextTexture, s, f).ret = "panic")
    /\ [][\A k \in KindTags : (GrowStep(k) /\ last'.ret = "panic") =>
            aborted' /\ bind_group' = bind_group]_vars
    /\ [][~aborted]_vars

\* A grow has aborted right after the custom rasterizer was asked for a
\* placed Custom key: the texture is replaced, the view and the size are not.
C12_Witness ==
    /\ aborted /\ last.op = "grow" /\ last.ret = "panic"
    /\ last.events[Len(last.events)].ev = "rasterize_custom_glyph"
    /\ last.events[Len(last.events)].key \in CustomKeys
    /\ atlas[last.kind].size < max_texture_dimension_2d
    /\ atlas[last.kind].texture_view # CreateView(atlas[last.kind].texture)

\* C13: in every reachable state, after any number of grows, the color
\* surface's texture has the sRGB format when the atlas was created with
\* ColorMode::Accurate and the linear format when created with
\* ColorMode::Web; the mask surface's texture has the same single-channel
\* format under both modes; and the color mode itself never changes.
C13_FormatsFollowColorMode ==
    /\ [](/\ atlas["Color"].texture.format =
                IF color_mode = "Accurate" THEN "Rgba8UnormSrgb" ELSE "Rgba8Unorm"
          /\ atlas["Mask"].texture.format = "R8Unorm"
          /\ num_channels(atlas["Color"].kind) = 4
          /\ num_channels(atlas["Mask"].kind) = 1)
    /\ [][color_mode' = color_mode]_vars

\* An atlas created with ColorMode::Web whose two surfaces have both grown.
C13_Witness ==
    /\ color_mode = "Web"
    /\ last.op = "grow" /\ last.ret = "true"
    /\ \A k \in KindTags : atlas[k].texture.id > 2 /\ atlas[k].size > INITIAL_SIZE

\* The rasterize_custom_glyph steps of the last operation.
CustomRasterizations ==
    {i \in 1..Len(last.events) : last.events[i].ev = "rasterize_custom_glyph"}

\* The cache entry of surface k that holds key.
EntryOf(k, key) ==
    atlas[k].glyph_cache[CHOOSE j \in 1..Len(atlas[k].glyph_cache) :
                            atlas[k].glyph_cache[j].key = key]

\* C14: the request grow passes to the custom rasterizer for a Custom key
\* equals the request that produced the entry in every field: id, width,
\* height, x_bin, y_bin and scale.
C14_RequestIsOriginal ==
    last.op = "grow" =>
        \A i \in CustomRasterizations :
            last.events[i].input = EntryOf(last.kind, last.events[i].key).request

\* The steps of the last operation that rebuild the bind group.
Rebinds == {i \in 1..Len(last.events) : last.events[i].ev = "rebind"}

\* C15: TextAtlas::grow(content_type) grows only the surface of that content
\* type: every field of the other surface (size, packer, texture, view,
\* glyph cache, usage set) is unchanged; and the bind group is rebuilt, from
\* the views after the grow, if and only if the call returns true.
C15_GrowTouchesOneSurface ==
    [][\A k \in KindTags : GrowStep(k) =>
          /\ \A j \in KindTags \ {k} : atlas'[j] = atlas[j]
          /\ last'.ret = "true" =>
                /\ atlas'[k].size > atlas[k].size
                /\ atlas'[k].texture_view # atlas[k].texture_view
                /\ bind_group' = rebind(atlas')
                /\ bind_group' # bind_group
          /\ last'.ret # "true" => bind_group' = bind_group
          /\ last'.ret = "true" <=>
                \E i \in 1..Len(last'.events) : last'.events[i].ev = "rebind"]_vars

\* A grow has returned true while the other surface, still at its initial
\* size and texture, holds a cached glyph in use and a live region.
C15_Witness ==
    /\ last.op = "grow" /\ last.ret = "true" /\ Rebinds # {}
    /\ \E j \in KindTags \ {last.kind} :
          /\ atlas[j].glyph_cache # << >> /\ atlas[j].glyphs_in_use # {}
          /\ regions[j] # {}
          /\ atlas[j].texture.id <= 2

----------------------------------------------------------------------------
\* Repeated growth: the caller keeps calling grow on both surfaces, with
\* rasterizers that answer every request, on devices whose limit is below,
\* at, and several doublings above the initial size.

GrowMaxima == {2048, 4096, 20000}

InitRepeatedGrow ==
    /\ max_texture_dimension_2d \in GrowMaxima
    /\ color_mode \in ColorModes
    /\ atlas = [k \in KindTags |->
                  IF k = "Color"
                  THEN InnerAtlasNew(ColorKind(color_mode), max_texture_dimension_2d, 1)
                  ELSE InnerAtlasNew(KindMask, max_texture_dimension_2d, 2)]
    /\ bind_group = create_atlas_bind_group(atlas["Color"].texture_view,
                                            atlas["Mask"].texture_view)
    /\ regions = [k \in KindTags |-> {}]
    /\ nextTexture = 3
    /\ allocations = 0
    /\ aborted = FALSE
    /\ last = Op("new", "", "unit", << >>)

GrowWellBehaved(k) == \E s \in Scales : Grow(k, s, NoFault)

NextRepeatedGrow ==
    \/ \E k \in KindTags : GrowWellBehaved(k)
    \/ \E k \in KindTags, key \in Keys, s \in Scales : Prepare(k, key, s)

SpecRepeatedGrow ==
    /\ InitRepeatedGrow
    /\ [][NextRepeatedGrow]_vars
    /\ \A k \in KindTags : WF_vars(GrowWellBehaved(k))

\* C16: when grow keeps being called on a surface and the rasterizers answer,
\* the surface's size eventually equals the hardware maximum and stays
\* there; the successful grows before that each enlarge the surface, and
\* every grow from then on returns false and changes nothing.
C16_GrowReachesMaximum ==
    /\ \A k \in KindTags : <>[](atlas[k].size = max_texture_dimension_2d)
    /\ [][\A k \in KindTags : GrowStep(k) =>
            /\ last'.ret \in {"true", "false"}
            /\ last'.ret = "true" => atlas'[k].size > atlas[k].size
            /\ atlas[k].size = max_texture_dimension_2d =>
                  (last'.ret = "false" /\ atlas'[k] = atlas[k])]_vars

\* After three successful grows (4096, 8192, 16384, 20000) a surface that
\* holds a placed glyph is at the hardware maximum and grow has returned false.
C16_Witness ==
    /\ last.op = "grow" /\ last.ret = "false"
    /\ atlas[last.kind].size = 20000 /\ max_texture_dimension_2d = 20000
    /\ atlas[last.kind].texture.id > 4
    /\ \E i \in 1..Len(atlas[last.kind].glyph_cache) :
          atlas[last.kind].glyph_cache[i].gpu_cache.tag = "InAtlas"

\* C17: a try_allocate that returns nothing has no side effect: the surface
\* (packer's live rectangles and bound, size, glyph cache, usage set,
\* texture) is as before, so every later allocation has the outcomes it had
\* before the failed call; and the step changes nothing else of the atlas.
C17_FailedAllocateIsNoOp ==
    /\ [](\A k \in KindTags : \A w \in Sizes, h \in Sizes :
            \A o \in try_allocate(atlas[k], w, h) :
                o.ret = "none" =>
                    /\ o.atlas = atlas[k]
                    /\ o.allocation = NoAllocation
                    /\ \A w2 \in Sizes :
                          try_allocate(o.atlas, w2, 1000) = try_allocate(atlas[k], w2, 1000))
    /\ [][(last'.op = "try_allocate" /\ last'.ret = "none") =>
            /\ atlas' = atlas /\ regions' = regions
            /\ bind_group' = bind_group /\ allocations' = allocations]_vars

\* try_allocate has returned nothing while both surfaces hold a live
\* rectangle and a cached glyph in use.
C17_Witness ==
    /\ last.op = "try_allocate" /\ last.ret = "none"
    /\ \A k \in KindTags :
          /\ atlas[k].packer.live # {}
          /\ atlas[k].glyph_cache # << >>
          /\ atlas[k].glyphs_in_use # {}

----------------------------------------------------------------------------
\* Crowded surfaces: the caller caches a second Custom glyph, so that the
\* color surface holds several placed glyphs when it grows.

CrowdedKeys == Keys \cup {Key("Custom", 4, 1000, 1000)}

NextCrowded ==
    \/ \E k \in KindTags, key \in CrowdedKeys : Prepare(k, key, 1)
    \/ \E k \in KindTags, s \in Scales :
          \E fault \in FaultsFor(atlas[k]) : Grow(k, s, fault)
    \/ Trim

SpecCrowded == Init /\ [][NextCrowded]_vars

\* C18: within one successful TextAtlas::grow the steps are ordered: the
\* new texture is created before any re-upload; every re-upload is written
\* into that new texture and none into the old one; the view (of the new
\* texture) and the size are replaced only after all rasterizer calls and
\* re-uploads; and the bind group is rebuilt last, after the view is replaced.
C18_GrowOrder ==
    [][\A k \in KindTags : (GrowStep(k) /\ last'.ret = "true") =>
          LET ev == last'.events
              At(name) == {i \in 1..Len(ev) : ev[i].ev = name}
              Work == At("write_texture") \cup At("get_image_uncached")
                        \cup At("rasterize_custom_glyph") \cup At("validate")
          IN  /\ \A name \in {"create_texture", "create_view", "store_size", "rebind"} :
                    Cardinality(At(name)) = 1
              /\ \A c \in At("create_texture"), v \in At("create_view"),
                     z \in At("store_size"), b \in At("rebind") :
                    /\ ev[c].texture = atlas'[k].texture.id
                    /\ ev[c].texture # atlas[k].texture.id
                    /\ \A i \in Work : c < i /\ i < v /\ i < z
                    /\ \A i \in At("write_texture") :
                          /\ ev[i].texture = ev[c].texture
                          /\ ev[i].texture # atlas[k].texture.id
                    /\ ev[v].texture = ev[c].texture
                    /\ atlas'[k].texture_view = CreateView(atlas'[k].texture)
                    /\ v < b /\ z < b /\ b = Len(ev)
                    /\ bind_group' = rebind(atlas')]_vars

\* A grow has succeeded on a surface that holds two placed glyphs: two
\* re-uploads lie between the creation of the texture and of its view.
C18_Witness ==
    /\ last.op = "grow" /\ last.ret = "true"
    /\ Cardinality({i \in 1..Len(last.events) : last.events[i].ev = "write_texture"}) = 2
    /\ Cardinality(atlas[last.kind].texture.data) = 2

\* C19: in every state between operations (after creation and after any
\* try_allocate, grow or trim has returned), a surface's stored size, its
\* packer's bound and its texture's width and height are all equal.
C19_SizePackerTextureAgree ==
    ~aborted =>
        \A k \in KindTags :
            /\ atlas[k].packer.size = atlas[k].size
            /\ atlas[k].texture.width = atlas[k].size
            /\ atlas[k].texture.height = atlas[k].size

\* try_allocate has returned a region on a surface that has grown to a
\* hardware maximum that is not a multiple of the initial size.
C19_Witness ==
    /\ ~aborted
    /\ last.op = "try_allocate" /\ last.ret = "some"
    /\ \E k \in KindTags :
          /\ atlas[k].size = 6000 /\ atlas[k].texture.id > 2
          /\ atlas[k].packer.live # {}

\* C20: a successful grow leaves the surface's glyph cache (its keys, each
\* entry's placement status, the recency order) and its usage set as they
\* were; and of the core's operations try_allocate and grow remove nothing
\* from a usage set: only trim does, which empties them.
C20_GrowKeepsCacheAndUsage ==
    [][/\ \A k \in KindTags : (GrowStep(k) /\ last'.ret = "true") =>
            /\ atlas'[k].glyph_cache = atlas[k].glyph_cache
            /\ CacheKeys(atlas'[k].glyph_cache) = CacheKeys(atlas[k].glyph_cache)
            /\ Placements(atlas'[k].glyph_cache) = Placements(atlas[k].glyph_cache)
            /\ atlas'[k].glyphs_in_use = atlas[k].glyphs_in_use
       /\ last'.op \in {"try_allocate", "grow"} =>
            \A k \in KindTags : atlas'[k].glyphs_in_use = atlas[k].glyphs_in_use
       /\ last'.op = "trim" => \A k \in KindTags : atlas'[k].glyphs_in_use = {}]_vars

\* A grow has succeeded on a surface whose cache holds two entries, the more
\* recently used one in use and the other not.
C20_Witness ==
    /\ last.op = "grow" /\ last.ret = "true"
    /\ Len(atlas[last.kind].glyph_cache) = 2
    /\ atlas[last.kind].glyph_cache[1].key \in atlas[last.kind].glyphs_in_use
    /\ atlas[last.kind].glyph_cache[2].key \notin atlas[last.kind].glyphs_in_use

====
